---- MODULE Spec2Model ----
(***************************************************************************)
(* Model of the documentation site of useful-snippets:                     *)
(*   - the snippet route (app/routes/docs.$.tsx): loader,                  *)
(*     extractDocsAndCode and parseJSDoc, one step per loop iteration;     *)
(*   - the directory route (app/routes/docs.tsx) and readFilesFromDir.     *)
(* Text is a sequence of one-character strings, so that split, trim,       *)
(* startsWith, replace and substring are computed, not assumed.            *)
(***************************************************************************)
EXTENDS Integers, Sequences, FiniteSets, TLC

VARIABLES
  fs,              \* the file system: path -> node
  params,          \* the route parameters of the request
  pc,              \* position of the request handler
  lines,           \* extractDocsAndCode: content.split("\n")
  i,               \* extractDocsAndCode: loop index (1-based)
  docs,            \* extractDocsAndCode: accumulated block text
  code,            \* extractDocsAndCode: accumulated code text
  isInJSDoc,       \* extractDocsAndCode: inside-block flag
  plines,          \* parseJSDoc: docString.split("\n")
  j,               \* parseJSDoc: position in plines (1-based)
  sections,        \* parseJSDoc: emitted sections
  currentSection,  \* parseJSDoc: open section or Null
  buffer,          \* parseJSDoc: pending lines of the open section
  isInCodeBlock,   \* parseJSDoc: fence flag
  response,        \* what the snippet loader returned or threw
  files,           \* what the directory loader returned
  scrollViewHeight,     \* useCustomScrollIndicator: shared value
  contentHeight,        \* useCustomScrollIndicator: shared value
  scrollPosition,       \* useCustomScrollIndicator: shared value
  isDraggingWithTrack,  \* useCustomScrollIndicator: shared value
  isScrolling,          \* useCustomScrollIndicator: shared value
  opacity,              \* useCustomScrollIndicator: shared value (its target)
  hideTimeout,          \* the hideTimeout variable of each closure, 0 = unset
  rerendered,           \* the hook has run again since it was mounted
  timers,               \* the pending timers
  nextTimer,            \* the number of timers started so far
  refAttached,          \* scrollableRef.current is set
  scrolledTo,           \* the last scrollTo / scrollToOffset call
  logged,               \* the last object written by console.log
  task                  \* the event being delivered to its handler

siteVars == <<fs, params, pc, lines, i, docs, code, isInJSDoc, plines, j,
              sections, currentSection, buffer, isInCodeBlock, response, files>>

indicatorVars == <<scrollViewHeight, contentHeight, scrollPosition,
                   isDraggingWithTrack, isScrolling, opacity, hideTimeout,
                   rerendered, timers, nextTimer, refAttached, scrolledTo,
                   logged, task>>

vars == <<siteVars, indicatorVars>>

extractVars == <<lines, i, docs, code, isInJSDoc>>
parseVars == <<plines, j, sections, currentSection, buffer, isInCodeBlock>>

-----------------------------------------------------------------------------
(* Bounds *)

MaxBody == 3      \* lines between the open and the close line of a block
MaxEntries == 3   \* entries of the snippets tree
MaxDepth == 2     \* depth of the snippets tree
MaxLines == 4     \* lines of a file with several blocks
MaxTimers == 3    \* timers started by one mounted hook

-----------------------------------------------------------------------------
(* String primitives of the JavaScript runtime, on character sequences *)

NL == "\n"

\* the backtick character (a token: the character cannot be written in a string)
BT == "backtick"

WhiteSpace == {" ", "\t", "\n", "\r"}

RECURSIVE TrimStart(_)
TrimStart(s) ==
  IF s # <<>> /\ Head(s) \in WhiteSpace THEN TrimStart(Tail(s)) ELSE s

RECURSIVE TrimEnd(_)
TrimEnd(s) ==
  IF s # <<>> /\ s[Len(s)] \in WhiteSpace
    THEN TrimEnd(SubSeq(s, 1, Len(s) - 1))
    ELSE s

\* String.prototype.trim
Trim(s) == TrimEnd(TrimStart(s))

\* String.prototype.startsWith
StartsWith(s, p) == Len(s) >= Len(p) /\ SubSeq(s, 1, Len(p)) = p

\* String.prototype.substring(n), n counted from 0
Substring(s, n) == IF n >= Len(s) THEN <<>> ELSE SubSeq(s, n + 1, Len(s))

\* position of the first occurrence of character c in s, 0 when absent
RECURSIVE IndexOf(_, _, _)
IndexOf(s, c, k) ==
  IF k > Len(s) THEN 0
  ELSE IF s[k] = c THEN k
  ELSE IndexOf(s, c, k + 1)

\* String.prototype.split(c) for a one-character separator
RECURSIVE Split(_, _)
Split(s, c) ==
  LET k == IndexOf(s, c, 1) IN
    IF k = 0 THEN <<s>>
    ELSE <<SubSeq(s, 1, k - 1)>> \o Split(SubSeq(s, k + 1, Len(s)), c)

\* Array.prototype.join(c)
RECURSIVE Join(_, _)
Join(ss, c) ==
  IF ss = <<>> THEN <<>>
  ELSE IF Len(ss) = 1 THEN ss[1]
  ELSE ss[1] \o <<c>> \o Join(Tail(ss), c)

\* s.replace(/^\*\s?/, "")
StripStar(s) ==
  IF s # <<>> /\ Head(s) = "*"
    THEN IF Len(s) >= 2 /\ s[2] \in WhiteSpace
           THEN SubSeq(s, 3, Len(s))
           ELSE Tail(s)
    ELSE s

\* s.replace(/--/g, "/")
RECURSIVE ReplaceDashes(_)
ReplaceDashes(s) ==
  IF s = <<>> THEN <<>>
  ELSE IF Len(s) >= 2 /\ s[1] = "-" /\ s[2] = "-"
    THEN <<"/">> \o ReplaceDashes(SubSeq(s, 3, Len(s)))
    ELSE <<Head(s)>> \o ReplaceDashes(Tail(s))

-----------------------------------------------------------------------------
(* path module *)

\* resolution of "", "." and ".." segments of an absolute path
RECURSIVE ResolveSegments(_, _)
ResolveSegments(segs, acc) ==
  IF segs = <<>> THEN acc
  ELSE IF Head(segs) = <<>> \/ Head(segs) = <<".">>
    THEN ResolveSegments(Tail(segs), acc)
  ELSE IF Head(segs) = <<".", ".">>
    THEN ResolveSegments(Tail(segs),
           IF acc = <<>> THEN acc ELSE SubSeq(acc, 1, Len(acc) - 1))
  ELSE ResolveSegments(Tail(segs), Append(acc, Head(segs)))

\* path.normalize of an absolute path; a trailing separator is kept
PathNormalize(p) ==
  LET segs == ResolveSegments(Split(p, "/"), <<>>)
      body == <<"/">> \o Join(segs, "/")
  IN IF segs # <<>> /\ p[Len(p)] = "/" THEN body \o <<"/">> ELSE body

\* path.join: the non-empty arguments joined by "/" and normalized
PathJoin(parts) ==
  PathNormalize(Join(SelectSeq(parts, LAMBDA x : x # <<>>), "/"))

\* path.basename: the last segment, trailing separators ignored
PathBasename(p) ==
  LET segs == SelectSeq(Split(p, "/"), LAMBDA x : x # <<>>)
  IN IF segs = <<>> THEN <<>> ELSE segs[Len(segs)]

\* process.cwd()
Cwd == <<"/", "w">>

SnippetsRel == <<"a", "p", "p", "/", "s", "n", "i", "p", "p", "e", "t", "s">>

-----------------------------------------------------------------------------
(* fs module *)

\* the node a path names, a trailing separator ignored
FsKey(p) == IF Len(p) > 1 /\ p[Len(p)] = "/" THEN SubSeq(p, 1, Len(p) - 1) ELSE p

\* fs.readFileSync(p, "utf-8") succeeds
CanReadFile(f, p) ==
  /\ FsKey(p) \in DOMAIN f
  /\ f[FsKey(p)].kind = "file"
  /\ FsKey(p) = p

\* the errno fs.readFileSync(p) throws when it fails
ReadFileErrno(f, p) ==
  IF FsKey(p) \notin DOMAIN f THEN "ENOENT"
  ELSE IF f[FsKey(p)].kind = "dir" THEN "EISDIR"
  ELSE IF f[FsKey(p)].kind = "locked" THEN "EACCES"
  ELSE "ENOTDIR"

\* fs.readFileSync(p, "utf-8")
ReadFileSync(f, p) == f[p].data

\* fs.readdirSync(p)
ReaddirSync(f, p) == f[p].entries

\* fs.statSync(p).isDirectory()
StatIsDirectory(f, p) == f[p].kind = "dir"

-----------------------------------------------------------------------------
(* app/routes/docs.$.tsx: parseJSDoc *)

Null == [type |-> "null", title |-> "", content |-> <<>>]

Fence == <<BT, BT, BT>>
OpenMarker == <<"/", "*", "*">>
CloseMarker == <<"*", "/">>
FenceTsx == <<BT, BT, BT, "t", "s", "x", "\n">>
FenceEnd == <<"\n", BT, BT, BT>>

\* const trimmedLine = line.trim().replace(/^\*\s?/, "")
trimmedLine(line) == StripStar(Trim(line))

\* the test of the continue statement that skips empty lines and comment markers
IsSkipped(t) == t = OpenMarker \/ t = CloseMarker \/ t = <<>>

\* the fence flag set by a fence line and never cleared
ToggleCodeBlock_SetOnly(t, inBlock) == StartsWith(t, Fence) \/ inBlock

\* the fence flag after the line has been looked at
ToggleCodeBlock(t, inBlock) ==
  IF StartsWith(t, Fence) THEN ~inBlock ELSE inBlock

\* the section test without the fence flag
IsSectionMarker_NoFence(t, inBlock) == StartsWith(t, <<"@">>)

\* the test that opens a new section
IsSectionMarker(t, inBlock) == StartsWith(t, <<"@">>) /\ ~inBlock

\* trimmedLine.split(" ")[0].substring(1)
TagOf(t) == Substring(Split(t, " ")[1], 1)

\* the switch over the tag
NewSection(tag) ==
  IF tag = <<"e", "x", "a", "m", "p", "l", "e">>
    THEN [type |-> "example", title |-> "Example Usage", content |-> <<>>]
  ELSE IF tag = <<"p", "a", "r", "a", "m">>
    THEN [type |-> "param", title |-> "Parameters", content |-> <<>>]
  ELSE IF tag = <<"r", "e", "t", "u", "r", "n", "s">>
    THEN [type |-> "returns", title |-> "Returns", content |-> <<>>]
  ELSE IF tag = <<"l", "i", "m", "i", "t", "a", "t", "i", "o", "n", "s">>
    THEN [type |-> "limitations", title |-> "Limitations", content |-> <<>>]
  ELSE IF tag = <<"p", "e", "r", "f", "o", "r", "m", "a", "n", "c", "e">>
    THEN [type |-> "performance", title |-> "Performance Considerations",
          content |-> <<>>]
  ELSE IF tag = <<"r", "e", "m", "a", "r", "k", "s">>
    THEN [type |-> "remarks", title |-> "Additional Notes", content |-> <<>>]
  ELSE [type |-> "description", title |-> "Description", content |-> <<>>]

\* buffer = [trimmedLine.substring(tag.length + 2)]
FirstBuffer(t) == <<Substring(t, Len(TagOf(t)) + 2)>>

\* the content of a section, an example wrapped whatever it starts with
SectionContent_AlwaysWrap(type, buf) ==
  LET content == Trim(Join(buf, NL)) IN
    IF type = "example" THEN FenceTsx \o content \o FenceEnd ELSE content

\* the content saveCurrentSection assigns to a section of the given type
SectionContent(type, buf) ==
  LET content == Trim(Join(buf, NL)) IN
    IF type = "example"
      THEN IF ~StartsWith(content, Fence)
             THEN FenceTsx \o content \o FenceEnd
             ELSE content
      ELSE content

\* the guard of saveCurrentSection
ShouldSave(cur, buf) == cur # Null /\ Len(buf) > 0

\* saveCurrentSection putting the section in front of the sections
saveCurrentSection_Unshift(secs, cur, buf) ==
  IF ShouldSave(cur, buf)
    THEN [sections |-> <<[cur EXCEPT !.content = SectionContent(cur.type, buf)]>> \o secs,
          buffer |-> <<>>]
    ELSE [sections |-> secs, buffer |-> buf]

\* saveCurrentSection: the sections and the buffer it leaves
saveCurrentSection(secs, cur, buf) ==
  IF ShouldSave(cur, buf)
    THEN [sections |-> Append(secs,
                        [cur EXCEPT !.content = SectionContent(cur.type, buf)]),
          buffer |-> <<>>]
    ELSE [sections |-> secs, buffer |-> buf]

-----------------------------------------------------------------------------
(* app/routes/docs.$.tsx: extractDocsAndCode *)

\* line.trim().startsWith("/**")
IsBlockOpen(line) == StartsWith(Trim(line), OpenMarker)

\* the close test without the inside-block flag
IsBlockClose_NoFlag(line, inDoc) == StartsWith(Trim(line), CloseMarker)

\* isInJSDoc && line.trim().startsWith("*/")
IsBlockClose(line, inDoc) == inDoc /\ StartsWith(Trim(line), CloseMarker)

-----------------------------------------------------------------------------
(* app/routes/docs.$.tsx: loader *)

\* path.join(process.cwd(), "app/snippets", snippet.replace(/--/g, "/"))
FilePath(snippet) == PathJoin(<<Cwd, SnippetsRel, ReplaceDashes(snippet)>>)

\* if (!snippet): the parameter is absent or the empty string
NoSnippet(p) == ~p.has \/ p.star = <<>>

\* the loader letting the error of the read through
LoaderError_Raw(errno) == [status |-> "error", message |-> errno]

\* what the loader throws, from the first check and from the catch clause
LoaderError(errno) == [status |-> "error", message |-> "Snippet not found"]

\* json({ docs, code, fileName: path.basename(filePath) })
LoaderJson(d, c, filePath) ==
  [status |-> "ok", docs |-> d, code |-> c, fileName |-> PathBasename(filePath)]

Pending == [status |-> "pending"]

-----------------------------------------------------------------------------
(* useCustomScrollIndicator with the draggable track: the state of the hook
   when it is mounted *)

NoTask == [type |-> "none"]
NoScrollTo == [called |-> FALSE]
NoLog == [written |-> FALSE]

Mounted ==
  /\ scrollViewHeight = 0 /\ contentHeight = 0 /\ scrollPosition = 0
  /\ isDraggingWithTrack = FALSE /\ isScrolling = FALSE /\ opacity = 0
  /\ hideTimeout = [mount |-> 0, render |-> 0]
  /\ rerendered = FALSE
  /\ timers = {} /\ nextTimer = 0
  /\ scrolledTo = NoScrollTo
  /\ logged = NoLog
  /\ task = NoTask

-----------------------------------------------------------------------------
(* The files and requests the snippet route is run on *)

OpenLine == <<"/", "*", "*">>
CloseLine == <<" ", "*", "/">>
CodeLine == <<"c", "o", "n", "s", "t", " ", "x", " ", "=", " ", "1", ";">>

LnDoesX == <<" ", "*", " ", "D", "o", "e", "s", " ", "X", ".">>
LnExample == <<" ", "*", " ", "@", "e", "x", "a", "m", "p", "l", "e">>
LnFoo == <<" ", "*", " ", "f", "o", "o", "(", ")">>
LnFence == <<" ", "*", " ", BT, BT, BT>>
LnNote == <<" ", "*", " ", "@", "n", "o", "t", "e", " ", "n">>
LnParamA == <<" ", "*", " ", "@", "p", "a", "r", "a", "m", " ", "a">>
LnParamB == <<" ", "*", " ", "@", "p", "a", "r", "a", "m", " ", "b">>
LnParam == <<" ", "*", " ", "@", "p", "a", "r", "a", "m">>
LnBlank == <<" ", "*">>

\* the lines a doc block is made of
BodyPool ==
  {LnDoesX, LnExample, LnFoo, LnFence, LnNote, LnParamA, LnParamB, LnParam,
   LnBlank}

Bodies == UNION {[1..n -> BodyPool] : n \in 0..MaxBody}

\* a file: an optional open line, the body, an optional close line and an
\* optional line of code
FileLines(open, body, close, tail) ==
  (IF open THEN <<OpenLine>> ELSE <<>>) \o body
    \o (IF close THEN <<CloseLine>> ELSE <<>>)
    \o (IF tail THEN <<CodeLine>> ELSE <<>>)

Inputs ==
  {Join(FileLines(open, body, close, tail), NL) :
     open \in BOOLEAN, body \in Bodies, close \in BOOLEAN, tail \in BOOLEAN}

\* "/**\n * Does X.\n * @example\n * foo()\n */\nconst x = 1;"
Scenario == Join(FileLines(TRUE, <<LnDoesX, LnExample, LnFoo>>, TRUE, TRUE), NL)

SnippetsDir == PathJoin(<<Cwd, SnippetsRel>>)

NameX == <<"x", ".", "t", "s">>
NameD == <<"d">>
NameK == <<"k", ".", "t", "s">>

\* app/snippets holds x.ts, an unreadable k.ts and a directory d with x.ts
SnippetFs(content) ==
  LET pX == PathJoin(<<SnippetsDir, NameX>>)
      pD == PathJoin(<<SnippetsDir, NameD>>)
      pK == PathJoin(<<SnippetsDir, NameK>>)
      pDX == PathJoin(<<pD, NameX>>)
  IN [p \in {SnippetsDir, pX, pD, pK, pDX} |->
        IF p = SnippetsDir THEN [kind |-> "dir", entries |-> <<NameD, NameK, NameX>>]
        ELSE IF p = pD THEN [kind |-> "dir", entries |-> <<NameX>>]
        ELSE IF p = pK THEN [kind |-> "locked"]
        ELSE IF p = pX THEN [kind |-> "file", data |-> content]
        ELSE [kind |-> "file", data |-> Scenario]]

\* the values of the "*" route parameter
StarPool ==
  {NameX,                                    \* x.ts
   <<"d", "-", "-", "x", ".", "t", "s">>,    \* d--x.ts
   <<"y", ".", "t", "s">>,                   \* y.ts, no such file
   NameD,                                    \* d, a directory
   <<"d", "-", "-">>,                        \* d--, a directory
   NameK,                                    \* k.ts, unreadable
   <<>>}                                     \* the empty string

ParamsPool == {[has |-> FALSE, star |-> <<>>]} \cup {[has |-> TRUE, star |-> s] : s \in StarPool}

-----------------------------------------------------------------------------
(* The snippet route, docs.$.tsx *)

Init ==
  /\ params \in ParamsPool
  /\ \E content \in Inputs :
       /\ (params.star # NameX => content = Scenario)
       /\ fs = SnippetFs(content)
  /\ pc = "loader"
  /\ lines = <<>> /\ i = 1 /\ docs = <<>> /\ code = <<>> /\ isInJSDoc = FALSE
  /\ plines = <<>> /\ j = 1 /\ sections = <<>> /\ currentSection = Null
  /\ buffer = <<>> /\ isInCodeBlock = FALSE
  /\ response = Pending
  /\ files = <<>>
  /\ Mounted /\ refAttached = FALSE

\* loader: if (!snippet) throw new Error("Snippet not found")
LoaderNoSnippet ==
  /\ pc = "loader"
  /\ NoSnippet(params)
  /\ response' = LoaderError("EINVAL")
  /\ pc' = "done"
  /\ UNCHANGED <<indicatorVars, fs, params, extractVars, parseVars, files>>

\* loader: fs.readFileSync throws and the catch clause rethrows
LoaderReadFails ==
  /\ pc = "loader"
  /\ ~NoSnippet(params)
  /\ ~CanReadFile(fs, FilePath(params.star))
  /\ response' = LoaderError(ReadFileErrno(fs, FilePath(params.star)))
  /\ pc' = "done"
  /\ UNCHANGED <<indicatorVars, fs, params, extractVars, parseVars, files>>

\* loader: the file is read and extractDocsAndCode is entered
LoaderRead ==
  /\ pc = "loader"
  /\ ~NoSnippet(params)
  /\ CanReadFile(fs, FilePath(params.star))
  /\ lines' = Split(ReadFileSync(fs, FilePath(params.star)), NL)
  /\ i' = 1 /\ docs' = <<>> /\ code' = <<>> /\ isInJSDoc' = FALSE
  /\ pc' = "extract"
  /\ UNCHANGED <<indicatorVars, fs, params, parseVars, response, files>>

\* extractDocsAndCode: a line that opens a block
ExtractOpen ==
  /\ pc = "extract" /\ i <= Len(lines)
  /\ IsBlockOpen(lines[i])
  /\ isInJSDoc' = TRUE
  /\ docs' = docs \o lines[i] \o <<NL>>
  /\ i' = i + 1
  /\ UNCHANGED <<indicatorVars, fs, params, pc, lines, code, parseVars, response, files>>

\* the close line leaving the inside-block flag set
ExtractClose_KeepsFlag ==
  /\ pc = "extract" /\ i <= Len(lines)
  /\ ~IsBlockOpen(lines[i])
  /\ IsBlockClose(lines[i], isInJSDoc)
  /\ isInJSDoc' = TRUE
  /\ docs' = docs \o lines[i] \o <<NL>>
  /\ i' = i + 1
  /\ UNCHANGED <<indicatorVars, fs, params, pc, lines, code, parseVars, response, files>>

\* extractDocsAndCode: a line that closes the open block
ExtractClose ==
  /\ pc = "extract" /\ i <= Len(lines)
  /\ ~IsBlockOpen(lines[i])
  /\ IsBlockClose(lines[i], isInJSDoc)
  /\ isInJSDoc' = FALSE
  /\ docs' = docs \o lines[i] \o <<NL>>
  /\ i' = i + 1
  /\ UNCHANGED <<indicatorVars, fs, params, pc, lines, code, parseVars, response, files>>

\* extractDocsAndCode: any other line goes to the block or to the code
ExtractOther ==
  /\ pc = "extract" /\ i <= Len(lines)
  /\ ~IsBlockOpen(lines[i])
  /\ ~IsBlockClose(lines[i], isInJSDoc)
  /\ IF isInJSDoc
       THEN docs' = docs \o lines[i] \o <<NL>> /\ code' = code
       ELSE code' = code \o lines[i] \o <<NL>> /\ docs' = docs
  /\ i' = i + 1
  /\ UNCHANGED <<indicatorVars, fs, params, pc, lines, isInJSDoc, parseVars, response, files>>

\* extractDocsAndCode: the loop is over and parseJSDoc(docs) is entered
ExtractReturn ==
  /\ pc = "extract" /\ i > Len(lines)
  /\ plines' = Split(docs, NL)
  /\ j' = 1 /\ sections' = <<>> /\ currentSection' = Null
  /\ buffer' = <<>> /\ isInCodeBlock' = FALSE
  /\ pc' = "parse"
  /\ UNCHANGED <<indicatorVars, fs, params, extractVars, response, files>>

\* parseJSDoc: an empty line or a comment marker is skipped
ParseSkip ==
  /\ pc = "parse" /\ j <= Len(plines)
  /\ IsSkipped(trimmedLine(plines[j]))
  /\ j' = j + 1
  /\ UNCHANGED <<indicatorVars, fs, params, pc, extractVars, plines, sections, currentSection,
                 buffer, isInCodeBlock, response, files>>

\* parseJSDoc: a section marker outside a code block opens a section
ParseMarker ==
  LET t == trimmedLine(plines[j])
      inBlock == ToggleCodeBlock(t, isInCodeBlock)
      saved == saveCurrentSection(sections, currentSection, buffer)
  IN /\ pc = "parse" /\ j <= Len(plines)
     /\ ~IsSkipped(t)
     /\ IsSectionMarker(t, inBlock)
     /\ isInCodeBlock' = inBlock
     /\ sections' = saved.sections
     /\ currentSection' = NewSection(TagOf(t))
     /\ buffer' = FirstBuffer(t)
     /\ j' = j + 1
     /\ UNCHANGED <<indicatorVars, fs, params, pc, extractVars, plines, response, files>>

\* parseJSDoc: any other line is appended to the buffer
ParseText ==
  LET t == trimmedLine(plines[j])
      inBlock == ToggleCodeBlock(t, isInCodeBlock)
  IN /\ pc = "parse" /\ j <= Len(plines)
     /\ ~IsSkipped(t)
     /\ ~IsSectionMarker(t, inBlock)
     /\ isInCodeBlock' = inBlock
     /\ currentSection' =
          IF currentSection = Null THEN NewSection(<<>>) ELSE currentSection
     /\ buffer' = Append(buffer, t)
     /\ j' = j + 1
     /\ UNCHANGED <<indicatorVars, fs, params, pc, extractVars, plines, sections, response,
                    files>>

\* parseJSDoc: the last saveCurrentSection; the loader returns the json
ParseReturn ==
  LET saved == saveCurrentSection(sections, currentSection, buffer)
  IN /\ pc = "parse" /\ j > Len(plines)
     /\ sections' = saved.sections
     /\ buffer' = saved.buffer
     /\ response' = LoaderJson(saved.sections, code, FilePath(params.star))
     /\ pc' = "done"
     /\ UNCHANGED <<indicatorVars, fs, params, extractVars, plines, j, currentSection,
                    isInCodeBlock, files>>

Next ==
  \/ LoaderNoSnippet
  \/ LoaderReadFails
  \/ LoaderRead
  \/ ExtractOpen
  \/ ExtractClose
  \/ ExtractOther
  \/ ExtractReturn
  \/ ParseSkip
  \/ ParseMarker
  \/ ParseText
  \/ ParseReturn

Spec == Init /\ [][Next]_vars

-----------------------------------------------------------------------------
(* readFilesFromDir and the directory route, docs.tsx *)

RECURSIVE readFilesFromDir(_, _)

\* the callback returning the name and the path only
FileInfo_Flat(f, dirPath, file) ==
  [name |-> file, path |-> PathJoin(<<dirPath, file>>)]

\* the callback of files.map: the FileInfo of one entry of dirPath
FileInfo(f, dirPath, file) ==
  LET fullPath == PathJoin(<<dirPath, file>>) IN
    IF StatIsDirectory(f, fullPath)
      THEN [name |-> file, path |-> fullPath, isDirectory |-> TRUE,
            children |-> readFilesFromDir(f, fullPath)]
      ELSE [name |-> file, path |-> fullPath, isDirectory |-> FALSE]

readFilesFromDir(f, dirPath) ==
  LET entries == ReaddirSync(f, dirPath)
  IN [k \in 1..Len(entries) |-> FileInfo(f, dirPath, entries[k])]

\* const start = "app/"; path.join(process.cwd(), start + "snippets")
DocsDir == PathJoin(<<Cwd, <<"a", "p", "p", "/">> \o <<"s", "n", "i", "p", "p", "e", "t", "s">> >>)

NameA == <<"a", ".", "t", "s">>
NameB == <<"b">>
NameC == <<"c", ".", "t", "s">>

Names == {NameA, NameB, NameC}

\* entries of the tree, as the names from the root down
RelPaths == UNION {[1..n -> Names] : n \in 1..MaxDepth}

Parent(p) == SubSeq(p, 1, Len(p) - 1)

\* the sets of at most k entries in which every entry has its parent
RECURSIVE Trees(_)
Trees(k) ==
  IF k = 0 THEN {{}}
  ELSE LET smaller == Trees(k - 1) IN
    smaller \cup
      UNION {{T \cup {p} : p \in {q \in RelPaths : Len(q) = 1 \/ Parent(q) \in T}} :
               T \in smaller}

\* the orders in which the storage layer may enumerate the names
Enumerations == {e \in [1..Cardinality(Names) -> Names] : \A n \in Names : \E k \in DOMAIN e : e[k] = n}

AbsPath(p) == PathJoin(<<DocsDir>> \o p)

\* the file system holding the tree T with the directories D
TreeFs(T, D, enum) ==
  [q \in {AbsPath(p) : p \in T \cup {<<>>}} |->
     LET p == CHOOSE r \in T \cup {<<>>} : AbsPath(r) = q IN
       IF p = <<>> \/ p \in D
         THEN [kind |-> "dir",
               entries |-> SelectSeq(enum, LAMBDA n : Append(p, n) \in T)]
         ELSE [kind |-> "file", data |-> <<>>]]

InitDocs ==
  /\ \E T \in Trees(MaxEntries) :
       \E D \in SUBSET T : \E enum \in Enumerations :
         /\ \A p \in T : (\E q \in T : Len(q) > 1 /\ Parent(q) = p) => p \in D
         /\ fs = TreeFs(T, D, enum)
  /\ params = [has |-> FALSE, star |-> <<>>]
  /\ pc = "docs"
  /\ lines = <<>> /\ i = 1 /\ docs = <<>> /\ code = <<>> /\ isInJSDoc = FALSE
  /\ plines = <<>> /\ j = 1 /\ sections = <<>> /\ currentSection = Null
  /\ buffer = <<>> /\ isInCodeBlock = FALSE
  /\ response = Pending
  /\ files = <<>>
  /\ Mounted /\ refAttached = FALSE

\* docs.tsx loader: json({ files: readFilesFromDir(docsDir) })
DocsLoader ==
  /\ pc = "docs"
  /\ files' = readFilesFromDir(fs, DocsDir)
  /\ pc' = "done"
  /\ UNCHANGED <<indicatorVars, fs, params, extractVars, parseVars, response>>

NextDocs == DocsLoader

SpecDocs == InitDocs /\ [][NextDocs]_vars

-----------------------------------------------------------------------------
(* Vocabulary of the properties *)

\* the snippet loader has returned a json
Loaded == pc = "done" /\ response.status = "ok"

\* the text of the file the request names
RawContent == fs[FilePath(params.star)].data

Contains(s, p) ==
  \E k \in 0..(Len(s) - Len(p)) : SubSeq(s, k + 1, k + Len(p)) = p

DescriptionOf(text) ==
  [type |-> "description", title |-> "Description", content |-> text]

ExampleOf(text) ==
  [type |-> "example", title |-> "Example Usage", content |-> text]

\* the lines of the block text, without the empty piece after the last newline
BlockLines == SubSeq(plines, 1, Len(plines) - 1)

\* the block has a line and none of its lines starts with "@"
NoTagLine ==
  /\ docs # <<>>
  /\ \A k \in DOMAIN BlockLines : ~StartsWith(trimmedLine(BlockLines[k]), <<"@">>)

IsOpenLine(line) == Trim(line) = <<"/", "*", "*">>
IsCloseLine(line) == Trim(line) = <<"*", "/">>
IsBlankLine(line) == Trim(line) = <<>> \/ Trim(line) = <<"*">>

\* the lines between the open and the close line, continuation prefixes
\* removed, blank lines left out
BodyLines ==
  LET kept == SelectSeq(BlockLines,
                LAMBDA l : ~IsOpenLine(l) /\ ~IsCloseLine(l) /\ ~IsBlankLine(l))
  IN [k \in DOMAIN kept |-> trimmedLine(kept[k])]

BodyText == Trim(Join(BodyLines, NL))

-----------------------------------------------------------------------------
(* C1: on "/**\n * Does X.\n * @example\n * foo()\n */\nconst x = 1;" the
   loader returns exactly the sections {description, "Description",
   "Does X."} and {example, "Example Usage", "```tsx\nfoo()\n```"}, in this
   order, and the code "const x = 1;\n". *)
C1_ScenarioResult ==
  (Loaded /\ RawContent = Scenario) =>
    /\ response.docs =
         << DescriptionOf(<<"D", "o", "e", "s", " ", "X", ".">>),
            ExampleOf(<<BT, BT, BT, "t", "s", "x", "\n", "f", "o", "o", "(", ")",
                        "\n", BT, BT, BT>>) >>
    /\ response.code = <<"c", "o", "n", "s", "t", " ", "x", " ", "=", " ", "1", ";", "\n">>

(* C2: no emitted section has empty accumulated text: a tag line with no text
   that is immediately followed by another tag line produces no section. *)
C2_NoEmptySection ==
  \A k \in DOMAIN sections :
    /\ sections[k].content # <<>>
    /\ sections[k].content # FenceTsx \o FenceEnd

\* a line the parser is to discard: blank, the open line or the close line
IsDiscardable(line) == IsBlankLine(line) \/ IsOpenLine(line) \/ IsCloseLine(line)

(* C3: a line of the block that is blank, the open marker line or the close
   marker line adds no text to any buffer or content and opens no section. *)
C3_MarkersDiscarded ==
  [][(pc = "parse" /\ j <= Len(plines) /\ IsDiscardable(plines[j]))
       => UNCHANGED <<sections, currentSection, buffer>>]_vars

\* no line of the text starts, after trimming, with the open marker
NoOpenLine(text) ==
  \A k \in DOMAIN Split(text, NL) :
    ~StartsWith(Trim(Split(text, NL)[k]), <<"/", "*", "*">>)

(* C4: for a text with no line starting with the open marker the loader
   returns no section and a code text that is the input, line for line, each
   line followed by a newline. *)
C4_NoBlockAllCode ==
  (Loaded /\ NoOpenLine(RawContent)) =>
    /\ response.docs = <<>>
    /\ response.code = RawContent \o <<NL>>

\* a file of several lines without an open line, a close line among them
C4_Witness ==
  /\ Loaded
  /\ NoOpenLine(RawContent)
  /\ Len(lines) >= 3
  /\ \E k \in DOMAIN lines : IsCloseLine(lines[k])

\* the number of lines before line k of the block that start with a fence
FencesBefore(k) ==
  Cardinality({m \in 1..(k - 1) : StartsWith(trimmedLine(plines[m]), Fence)})

\* line k of the block lies after an opening and before the closing fence
InsideFence(k) == FencesBefore(k) % 2 = 1

\* line k of the block starts with "@" and lies inside a fence
IsFencedAtLine(k) ==
  /\ k \in DOMAIN plines
  /\ StartsWith(trimmedLine(plines[k]), <<"@">>)
  /\ InsideFence(k)

\* every "@" line inside a fence is a line of the content of some section
FencedAtLinesKept(secs) ==
  \A k \in DOMAIN plines :
    IsFencedAtLine(k) =>
      \E n \in DOMAIN secs :
        Contains(secs[n].content, <<NL>> \o trimmedLine(plines[k]))

(* C5: a line starting with "@" between an opening and a closing fence line
   starts no section: the emitted sections and the open section are left as
   they are, the line is appended to the buffer of the open section, and it
   is a line of the content of a section that is returned. *)
C5_FencedAtLine ==
  [][/\ (pc = "parse" /\ IsFencedAtLine(j)) =>
          /\ sections' = sections
          /\ currentSection' = currentSection
          /\ buffer' = Append(buffer, trimmedLine(plines[j]))
     /\ (pc = "parse" /\ pc' = "done") => FencedAtLinesKept(response'.docs)]_vars

\* a json was returned for a block with an "@" line inside a closed fence
C5_Witness ==
  /\ Loaded
  /\ \E k \in DOMAIN plines :
       /\ IsFencedAtLine(k)
       /\ StartsWith(trimmedLine(plines[k + 1]), Fence)

(* C6: an emitted example section has content "```tsx\n" + t + "\n```" when
   the joined, trimmed buffer t does not start with a fence and content t
   when it does; a section of any other kind has content t. *)
C6_ExampleWrapping ==
  [][Len(sections') > Len(sections) =>
       LET t == Trim(Join(buffer, NL))
           s == sections'[Len(sections')]
       IN /\ Len(sections') = Len(sections) + 1
          /\ SubSeq(sections', 1, Len(sections)) = sections
          /\ s.type = currentSection.type
          /\ s.content =
               IF s.type = "example" /\ ~StartsWith(t, <<BT, BT, BT>>)
                 THEN <<BT, BT, BT, "t", "s", "x", "\n">> \o t \o <<"\n", BT, BT, BT>>
                 ELSE t]_vars

\* a wrapped example, an example that was already fenced and another section
C6_Witness ==
  /\ \E k \in DOMAIN sections :
       /\ sections[k].type = "example"
       /\ StartsWith(sections[k].content, FenceTsx)
  /\ \E k \in DOMAIN sections :
       /\ sections[k].type = "example"
       /\ sections[k].content = Fence

\* the retained lines of the block that open a section, in source order
TagLineIndexes == {k \in DOMAIN plines :
                     /\ StartsWith(trimmedLine(plines[k]), <<"@">>)
                     /\ ~InsideFence(k)}

\* the text after the tag of a tag line
TagText(t) ==
  LET sp == IndexOf(t, " ", 1) IN
    IF sp = 0 THEN <<>> ELSE Trim(SubSeq(t, sp + 1, Len(t)))

IsParamLine(t) == t = <<"@", "p", "a", "r", "a", "m">> \/ StartsWith(t, <<"@", "p", "a", "r", "a", "m", " ">>)

\* the members of a set of numbers, in increasing order
RECURSIVE Sorted(_)
Sorted(S) ==
  IF S = {} THEN <<>>
  ELSE LET m == CHOOSE x \in S : \A y \in S : x <= y
       IN <<m>> \o Sorted(S \ {m})

\* the texts of the @param lines outside fences, in source order
ParamTexts ==
  LET ks == Sorted({k \in TagLineIndexes : IsParamLine(trimmedLine(plines[k]))})
  IN [n \in DOMAIN ks |-> TagText(trimmedLine(plines[ks[n]]))]

(* C7: n @param lines outside fences, each with text, produce n separate
   param sections, in source order, each titled "Parameters" and each holding
   the text of its own tag line. *)
C7_ParamSections ==
  (Loaded /\ \A n \in DOMAIN ParamTexts : ParamTexts[n] # <<>>) =>
    LET ps == SelectSeq(response.docs, LAMBDA s : s.type = "param")
    IN /\ Len(ps) = Len(ParamTexts)
       /\ \A n \in DOMAIN ps :
            /\ ps[n].title = "Parameters"
            /\ StartsWith(ps[n].content, ParamTexts[n])

\* two param sections with different texts were returned
C7_Witness ==
  /\ Loaded
  /\ Len(ParamTexts) >= 2
  /\ \E m, n \in DOMAIN response.docs :
       /\ m < n
       /\ response.docs[m].type = "param" /\ response.docs[n].type = "param"
       /\ response.docs[m].content # response.docs[n].content
       /\ response.docs[m].content # <<>> /\ response.docs[n].content # <<>>

(* C8: for a block with a body and no line starting with "@" the loader
   returns exactly one section, of kind description and title "Description",
   whose content is the trimmed body of the block, the open and close lines
   and the continuation prefixes removed. *)
C8_DescriptionOnly ==
  (Loaded /\ NoTagLine /\ BodyLines # <<>>) =>
    response.docs = <<DescriptionOf(BodyText)>>

\* the part of a path after its last separator
RECURSIVE AfterLastSlash(_)
AfterLastSlash(p) ==
  LET k == IndexOf(p, "/", 1) IN
    IF k = 0 THEN p ELSE AfterLastSlash(SubSeq(p, k + 1, Len(p)))

\* the "*" parameter is missing
ParamMissing == ~params.has \/ params.star = <<>>

\* the mapped path names a readable regular file
MappedFileReadable ==
  LET p == Cwd \o <<"/">> \o SnippetsRel \o <<"/">> \o ReplaceDashes(params.star)
  IN p \in DOMAIN fs /\ fs[p].kind = "file"

\* the one failure of the snippet loader
SnippetNotFound == [status |-> "error", message |-> "Snippet not found"]

(* C9: the snippet loader returns nothing before it is done; when the "*"
   parameter is missing or the mapped file cannot be read it raises the error
   "Snippet not found"; otherwise it returns docs, code and fileName, the
   fileName being the base name of the path. *)
C9_LoaderOutcome ==
  /\ pc # "done" => response = Pending
  /\ pc = "done" =>
       IF ParamMissing \/ ~MappedFileReadable
         THEN response = SnippetNotFound
         ELSE /\ DOMAIN response = {"status", "docs", "code", "fileName"}
              /\ response.status = "ok"
              /\ response.docs = sections
              /\ response.code = code
              /\ response.fileName = AfterLastSlash(ReplaceDashes(params.star))

\* the read of an unreadable file has failed
C9_Witness ==
  /\ pc = "done"
  /\ params.has /\ params.star = NameK
  /\ response.status = "error"

\* the listing of dir is what the claim describes
RECURSIVE IsListingOf(_, _)
IsListingOf(list, dir) ==
  /\ DOMAIN list = 1..Len(fs[dir].entries)
  /\ \A k \in DOMAIN list :
       LET e == list[k]
           full == dir \o <<"/">> \o fs[dir].entries[k]
       IN /\ {"name", "path", "isDirectory"} \subseteq DOMAIN e
          /\ e.name = fs[dir].entries[k]
          /\ e.path = full
          /\ e.isDirectory = (fs[full].kind = "dir")
          /\ ("children" \in DOMAIN e) = e.isDirectory
          /\ DOMAIN e \subseteq {"name", "path", "isDirectory", "children"}
          /\ e.isDirectory => IsListingOf(e.children, full)

SnippetsPath == <<"/", "w", "/", "a", "p", "p", "/", "s", "n", "i", "p", "p", "e", "t", "s">>

\* a root with the file a.ts and the directory b holding the file c.ts
ExampleTree ==
  /\ DOMAIN fs = {SnippetsPath, SnippetsPath \o <<"/">> \o NameA,
                  SnippetsPath \o <<"/">> \o NameB,
                  SnippetsPath \o <<"/">> \o NameB \o <<"/">> \o NameC}
  /\ fs[SnippetsPath].entries = <<NameA, NameB>>
  /\ fs[SnippetsPath \o <<"/">> \o NameA].kind = "file"
  /\ fs[SnippetsPath \o <<"/">> \o NameB].kind = "dir"
  /\ fs[SnippetsPath \o <<"/">> \o NameB \o <<"/">> \o NameC].kind = "file"

ExampleListing ==
  << [name |-> NameA, path |-> SnippetsPath \o <<"/">> \o NameA,
      isDirectory |-> FALSE],
     [name |-> NameB, path |-> SnippetsPath \o <<"/">> \o NameB,
      isDirectory |-> TRUE,
      children |->
        << [name |-> NameC,
            path |-> SnippetsPath \o <<"/">> \o NameB \o <<"/">> \o NameC,
            isDirectory |-> FALSE] >>] >>

(* C10: readFilesFromDir returns one record {name, path, isDirectory,
   children?} per entry, in the order the storage layer enumerates the
   entries; children is there exactly when isDirectory is true and is the
   listing of that directory; a root with a.ts and b/ holding c.ts yields
   [{a.ts, file}, {b, directory, children [{c.ts, file}]}]. *)
C10_Listing ==
  pc = "done" =>
    /\ IsListingOf(files, SnippetsPath)
    /\ ExampleTree => files = ExampleListing

\* the tree of the example has been listed
C10_Witness == pc = "done" /\ ExampleTree /\ Len(files) = 2

-----------------------------------------------------------------------------
(* The snippet route on files with several blocks *)

\* the lines of a file with several blocks
BlockPool == {OpenLine, CloseLine, CodeLine, LnDoesX, LnParamA}

BlockInputs ==
  {Join(ls, NL) : ls \in UNION {[1..n -> BlockPool] : n \in 0..MaxLines}}

InitBlocks ==
  /\ params \in ParamsPool
  /\ \E content \in BlockInputs :
       /\ (params.star # NameX => content = <<>>)
       /\ fs = SnippetFs(content)
  /\ pc = "loader"
  /\ lines = <<>> /\ i = 1 /\ docs = <<>> /\ code = <<>> /\ isInJSDoc = FALSE
  /\ plines = <<>> /\ j = 1 /\ sections = <<>> /\ currentSection = Null
  /\ buffer = <<>> /\ isInCodeBlock = FALSE
  /\ response = Pending
  /\ files = <<>>
  /\ Mounted /\ refAttached = FALSE

SpecBlocks == InitBlocks /\ [][Next]_vars

(* C11: extractDocsAndCode appends every line to exactly one of the block
   text and the code text: to the block text iff the line starts, after
   trimming, with the open marker or the inside-block flag is set when it is
   read. A line starting with the close marker clears the flag when it is
   set; a cleared flag is set only by a line that starts with the open
   marker, so the lines between a close line and the next open line go to the
   code text as they are. *)
C11_LineRouting ==
  [][(pc = "extract" /\ i <= Len(lines)) =>
       LET l == lines[i]
           opens == StartsWith(Trim(l), <<"/", "*", "*">>)
           closes == StartsWith(Trim(l), <<"*", "/">>)
           toBlock == opens \/ isInJSDoc
       IN /\ docs' = IF toBlock THEN docs \o l \o <<NL>> ELSE docs
          /\ code' = IF toBlock THEN code ELSE code \o l \o <<NL>>
          /\ isInJSDoc' = (opens \/ (isInJSDoc /\ ~closes))
          /\ i' = i + 1 /\ lines' = lines]_vars

\* a block was closed, a line of code followed and a second block was opened
C11_Witness ==
  /\ Loaded
  /\ \E a, b, c, d \in DOMAIN lines :
       /\ a < b /\ b < c /\ c < d
       /\ lines[a] = OpenLine /\ lines[b] = CloseLine
       /\ lines[c] = CodeLine /\ lines[d] = OpenLine
  /\ response.code = CodeLine \o <<NL>>

\* the number of fence lines of the whole block is odd
FenceLeftOpen == FencesBefore(Len(plines) + 1) % 2 = 1

(* C12: the fence flag flips at every retained line that starts with a fence
   and changes at no other line; while the number of such lines read is odd,
   no line starts a section and every retained line is appended to the
   buffer of the open section; the end of the block raises no error and
   returns the sections accumulated, the open one included. *)
C12_FenceToggle ==
  [][/\ (pc = "parse" /\ j <= Len(plines)) =>
          LET t == trimmedLine(plines[j])
              fence == StartsWith(t, <<BT, BT, BT>>)
              kept == t # <<>> /\ t # <<"/", "*", "*">> /\ t # <<"*", "/">>
          IN /\ isInCodeBlock = InsideFence(j)
             /\ isInCodeBlock' = IF kept /\ fence THEN ~isInCodeBlock
                                                ELSE isInCodeBlock
             /\ (kept /\ InsideFence(j + 1)) =>
                  /\ sections' = sections
                  /\ buffer' = Append(buffer, t)
                  /\ currentSection' \in {currentSection, DescriptionOf(<<>>)}
     /\ (pc = "parse" /\ j > Len(plines)) =>
          /\ isInCodeBlock' = isInCodeBlock
          /\ response'.status = "ok"
          /\ response'.docs = sections'
          /\ SubSeq(sections', 1, Len(sections)) = sections
          /\ buffer # <<>> => Len(sections') = Len(sections) + 1]_vars

\* a json was returned for a block whose fence was never closed and that has
\* an "@" line after the fence
C12_Witness ==
  /\ Loaded
  /\ FenceLeftOpen
  /\ \E k \in DOMAIN plines : IsFencedAtLine(k)
  /\ Len(response.docs) >= 1

-----------------------------------------------------------------------------
(* useCustomScrollIndicator with the draggable track *)

\* the heights, offsets and touch positions the events carry
LayoutHeights == {132}
ContentHeights == {232}
ScrollOffsets == {0, 116}
LocationYs == {0, 50}

Events ==
  {[type |-> "scroll", y |-> y] : y \in ScrollOffsets}
    \cup {[type |-> "layout", height |-> h] : h \in LayoutHeights}
    \cup {[type |-> "contentSize", height |-> h] : h \in ContentHeights}
    \cup {[type |-> "touchStart", y |-> y] : y \in LocationYs}
    \cup {[type |-> "touchMove", y |-> y] : y \in LocationYs}
    \cup {[type |-> "touchEnd"]}

InitIndicator ==
  /\ fs = SnippetFs(Scenario)
  /\ params = [has |-> FALSE, star |-> <<>>]
  /\ pc = "idle"
  /\ lines = <<>> /\ i = 1 /\ docs = <<>> /\ code = <<>> /\ isInJSDoc = FALSE
  /\ plines = <<>> /\ j = 1 /\ sections = <<>> /\ currentSection = Null
  /\ buffer = <<>> /\ isInCodeBlock = FALSE
  /\ response = Pending
  /\ files = <<>>
  /\ Mounted
  /\ refAttached \in BOOLEAN

Max(a, b) == IF a >= b THEN a ELSE b
Min(a, b) == IF a <= b THEN a ELSE b

\* a / b rounded down, b # 0
Quotient(a, b) == IF b > 0 THEN a \div b ELSE (0 - a) \div (0 - b)

\* calculateScrollPosition; the heights of the events keep trackHeight # 0
calculateScrollPosition(locationY) ==
  LET trackHeight == scrollViewHeight - 32
      contentSize == contentHeight - scrollViewHeight
  IN Max(0, Min(contentSize, Quotient(locationY * contentSize, trackHeight)))

\* scrollTo: the call made on the scrollable, if the ref is set
scrollTo(y, animated) ==
  IF refAttached
    THEN [called |-> TRUE, y |-> y, animated |-> animated]
    ELSE scrolledTo

\* the closure whose hideTimeout handleScroll uses: handleScroll is made anew
\* by every run of the hook, the touch handlers are memoized at mount
ScrollClosure == IF rerendered THEN "render" ELSE "mount"

\* showScrollIndicator of closure c: clearTimeout, opacity 1, setTimeout
showScrollIndicator(c) ==
  /\ nextTimer < MaxTimers
  /\ timers' = (timers \ {hideTimeout[c]}) \cup {nextTimer + 1}
  /\ nextTimer' = nextTimer + 1
  /\ hideTimeout' = [hideTimeout EXCEPT ![c] = nextTimer + 1]
  /\ opacity' = 1

\* an event of the scrollable or of the track arrives
EventArrives ==
  /\ pc = "idle"
  /\ task = NoTask
  /\ \E e \in Events : task' = e
  /\ UNCHANGED <<siteVars, scrollViewHeight, contentHeight, scrollPosition,
                 isDraggingWithTrack, isScrolling, opacity, hideTimeout,
                 rerendered, timers, nextTimer, refAttached, scrolledTo, logged>>

\* the 1000 ms of a pending hide timer are over
TimerExpires ==
  /\ pc = "idle"
  /\ task = NoTask
  /\ \E id \in timers : task' = [type |-> "timeout", id |-> id]
  /\ UNCHANGED <<siteVars, scrollViewHeight, contentHeight, scrollPosition,
                 isDraggingWithTrack, isScrolling, opacity, hideTimeout,
                 rerendered, timers, nextTimer, refAttached, scrolledTo, logged>>

\* the component renders again: a new hideTimeout variable, a new handleScroll
Render ==
  /\ pc = "idle"
  /\ task = NoTask
  /\ rerendered' = TRUE
  /\ hideTimeout' = [hideTimeout EXCEPT !["render"] = 0]
  /\ UNCHANGED <<siteVars, scrollViewHeight, contentHeight, scrollPosition,
                 isDraggingWithTrack, isScrolling, opacity, timers, nextTimer,
                 refAttached, scrolledTo, logged, task>>

handleScroll ==
  /\ task.type = "scroll"
  /\ logged' = [written |-> TRUE, isDragging |-> isDraggingWithTrack]
  /\ IF ~isDraggingWithTrack
       THEN /\ scrollPosition' = task.y
            /\ isScrolling' = TRUE
            /\ showScrollIndicator(ScrollClosure)
       ELSE UNCHANGED <<scrollPosition, isScrolling, opacity, hideTimeout,
                        timers, nextTimer>>
  /\ task' = NoTask
  /\ UNCHANGED <<siteVars, scrollViewHeight, contentHeight,
                 isDraggingWithTrack, rerendered, refAttached, scrolledTo>>

handleLayout ==
  /\ task.type = "layout"
  /\ scrollViewHeight' = task.height
  /\ task' = NoTask
  /\ UNCHANGED <<siteVars, contentHeight, scrollPosition, isDraggingWithTrack,
                 isScrolling, opacity, hideTimeout, rerendered, timers,
                 nextTimer, refAttached, scrolledTo, logged>>

handleContentSizeChange ==
  /\ task.type = "contentSize"
  /\ contentHeight' = task.height
  /\ task' = NoTask
  /\ UNCHANGED <<siteVars, scrollViewHeight, scrollPosition,
                 isDraggingWithTrack, isScrolling, opacity, hideTimeout,
                 rerendered, timers, nextTimer, refAttached, scrolledTo, logged>>

handleTrackTouchStart ==
  /\ task.type = "touchStart"
  /\ isDraggingWithTrack' = TRUE
  /\ opacity' = 1
  /\ scrolledTo' = scrollTo(calculateScrollPosition(task.y), TRUE)
  /\ task' = NoTask
  /\ UNCHANGED <<siteVars, scrollViewHeight, contentHeight, scrollPosition,
                 isScrolling, hideTimeout, rerendered, timers, nextTimer,
                 refAttached, logged>>

handleTrackTouchMove ==
  /\ task.type = "touchMove"
  /\ scrolledTo' = IF isDraggingWithTrack
                     THEN scrollTo(calculateScrollPosition(task.y), FALSE)
                     ELSE scrolledTo
  /\ task' = NoTask
  /\ UNCHANGED <<siteVars, scrollViewHeight, contentHeight, scrollPosition,
                 isDraggingWithTrack, isScrolling, opacity, hideTimeout,
                 rerendered, timers, nextTimer, refAttached, logged>>

handleTrackTouchEnd ==
  /\ task.type = "touchEnd"
  /\ isDraggingWithTrack' = FALSE
  /\ showScrollIndicator("mount")
  /\ task' = NoTask
  /\ UNCHANGED <<siteVars, scrollViewHeight, contentHeight, scrollPosition,
                 isScrolling, rerendered, refAttached, scrolledTo, logged>>

\* the callback of a hide timer that leaves the flag out
HideTimerFires_NoCheck ==
  /\ task.type = "timeout"
  /\ timers' = timers \ {task.id}
  /\ opacity' = 0
  /\ task' = NoTask
  /\ UNCHANGED <<siteVars, scrollViewHeight, contentHeight, scrollPosition,
                 isDraggingWithTrack, isScrolling, hideTimeout, rerendered,
                 nextTimer, refAttached, scrolledTo, logged>>

\* the callback given to setTimeout by showScrollIndicator
HideTimerFires ==
  /\ task.type = "timeout"
  /\ timers' = timers \ {task.id}
  /\ opacity' = IF ~isDraggingWithTrack THEN 0 ELSE opacity
  /\ task' = NoTask
  /\ UNCHANGED <<siteVars, scrollViewHeight, contentHeight, scrollPosition,
                 isDraggingWithTrack, isScrolling, hideTimeout, rerendered,
                 nextTimer, refAttached, scrolledTo, logged>>

NextIndicator ==
  \/ EventArrives
  \/ TimerExpires
  \/ Render
  \/ handleScroll
  \/ handleLayout
  \/ handleContentSizeChange
  \/ handleTrackTouchStart
  \/ handleTrackTouchMove
  \/ handleTrackTouchEnd
  \/ HideTimerFires

SpecIndicator == InitIndicator /\ [][NextIndicator]_vars

(* C13: while a track drag is in progress (isDraggingWithTrack is true) a
   scroll event leaves scrollPosition as it is and starts no hide timer, and
   the firing of a hide timer does not set the opacity to 0. *)
C13_DragSuppresses ==
  [][isDraggingWithTrack =>
       /\ (task.type = "scroll" /\ task' = NoTask) =>
            /\ scrollPosition' = scrollPosition
            /\ timers' = timers
            /\ nextTimer' = nextTimer
       /\ (task.type = "timeout" /\ task' = NoTask) =>
            /\ opacity' # 0
            /\ opacity' = opacity]_vars

\* during a drag a scroll event has been handled, the indicator is shown and
\* a hide timer started before the drag is firing
C13_Witness ==
  /\ isDraggingWithTrack
  /\ logged = [written |-> TRUE, isDragging |-> TRUE]
  /\ task.type = "timeout"
  /\ opacity = 1

====
